---- MODULE Spec2Model ----
(***************************************************************************)
(* A model of imaginairy/utils.py: the image-fitting arithmetic, the mask  *)
(* thresholding, the two normalisation monkey-patches and the weights-file *)
(* cache.  Each group of functions has its own specification over the      *)
(* shared variables.                                                       *)
(***************************************************************************)
EXTENDS Integers, Sequences, FiniteSets, TLC

VARIABLES
    fitIn,      \* arguments of pillow_fit_image_within: [w, h, max_height, max_width]
    fitOut,     \* its outcome: "pending", a raise, or the returned (w, h)
    maskIn,     \* expand_mask: [size, blurred], blurred the grayscale pixels after the blur
    maskOut,    \* its outcome: "pending" or the pixels of the returned image
    layer_norm, \* the attribute torch.nn.functional.layer_norm
    group_norm, \* the attribute torch.nn.functional.group_norm
    ctxStack,   \* the patch contexts entered and not yet left, outermost first
    lastExit,   \* how the body of the context left last ended
    gnCall,     \* the last call of functional.group_norm: arguments given and received
    environ,    \* os.environ: [XDG_CACHE_HOME, HOME]
    files,      \* the regular files on disk: path -> content
    dirs,       \* the directories os.makedirs has created
    cacheDir,   \* the outcome of the last call of get_cache_dir
    lastCall,   \* the last call of get_cached_url_path and what it did
    getIssued,  \* per filename, the GET requests issued for it
    getOk,      \* per filename, the GET requests that returned a response
    allOSError, \* every cached_path so far failed with an OSError
    deleted     \* the files deleted from outside so far

vars == <<fitIn, fitOut, maskIn, maskOut, layer_norm, group_norm, ctxStack, lastExit, gnCall,
          environ, files, dirs, cacheDir, lastCall, getIssued, getOk, allOSError, deleted>>

(***************************************************************************)
(* IEEE-754 binary64 arithmetic, as CPython's float uses it.  A finite     *)
(* float is [neg, m, e]: sign, mantissa bits (most significant first, a    *)
(* leading 1, at most MantBits of them; <<>> for zero) and the exponent of *)
(* the last mantissa bit, so that |x| = BitsToInt(m) * 2^e.  numpy's        *)
(* float32 is the same with Mant32Bits.                                    *)
(***************************************************************************)
MantBits == 53
Mant32Bits == 24

\* The arithmetic below works on the mantissa in limbs of LimbBits bits, three
\* of them holding MantBits + 1 bits; it is exact for integer operands of
\* magnitude below 2^12 (limb * operand stays below 2^31).
LimbBits == 18
Limb == 2 ^ LimbBits

\* the low width bits of n, most significant first
ToBits(n, width) == [i \in 1..width |-> (n \div (2 ^ (width - i))) % 2]

RECURSIVE BitsToInt(_)
BitsToInt(bits) ==
    IF bits = <<>> THEN 0
    ELSE IF Len(bits) = 1 THEN bits[1]
    ELSE LET half == Len(bits) \div 2
         IN  BitsToInt(SubSeq(bits, 1, half)) * (2 ^ (Len(bits) - half))
             + BitsToInt(SubSeq(bits, half + 1, Len(bits)))

\* bits without its leading zeros
StripZeros(bits) ==
    IF \A i \in 1..Len(bits) : bits[i] = 0 THEN <<>>
    ELSE LET first == CHOOSE i \in 1..Len(bits) :
                          bits[i] = 1 /\ \A j \in 1..(i - 1) : bits[j] = 0
         IN  SubSeq(bits, first, Len(bits))

\* bits + 1, as a bit sequence one longer when the carry runs out of the top
IncBits(bits) ==
    IF \A i \in 1..Len(bits) : bits[i] = 1
    THEN <<1>> \o [i \in 1..Len(bits) |-> 0]
    ELSE LET last == CHOOSE i \in 1..Len(bits) :
                         bits[i] = 0 /\ \A j \in (i + 1)..Len(bits) : bits[j] = 1
         IN  [i \in 1..Len(bits) |-> IF i < last THEN bits[i]
                                     ELSE IF i = last THEN 1 ELSE 0]

\* round-to-nearest, ties-to-even, to prec mantissa bits, of the exact value
\* bits * 2^e with a further nonzero part below the last bit iff sticky
RoundNearestEven(neg, bits, e, sticky, prec) ==
    IF Len(bits) <= prec
    THEN [neg |-> neg, m |-> bits, e |-> e]
    ELSE LET kept  == SubSeq(bits, 1, prec)
             drop  == SubSeq(bits, prec + 1, Len(bits))
             guard == drop[1]
             rest  == sticky \/ \E i \in 2..Len(drop) : drop[i] = 1
             up    == guard = 1 /\ (rest \/ kept[prec] = 1)
             e2    == e + Len(drop)
             inc   == IncBits(kept)
         IN  IF ~up THEN [neg |-> neg, m |-> kept, e |-> e2]
             ELSE IF Len(inc) > prec
                  THEN [neg |-> neg, m |-> SubSeq(inc, 1, prec), e |-> e2 + 1]
                  ELSE [neg |-> neg, m |-> inc, e |-> e2]

\* the first MantBits + 1 quotient bits of N / D for D <= N < 2 * D, and
\* whether anything is left (long division, a limb at a time)
DivBits(N, D) ==
    LET n1 == N * (2 ^ (LimbBits - 1))
        n2 == (n1 % D) * Limb
        n3 == (n2 % D) * Limb
    IN  [bits |-> ToBits(n1 \div D, LimbBits) \o ToBits(n2 \div D, LimbBits)
                  \o ToBits(n3 \div D, LimbBits),
         rem  |-> n3 % D]

\* n / d for integers n and d > 0 in a float format of prec mantissa bits:
\* the quotient, rounded once
FloatDivTo(n, d, prec) ==
    LET a == IF n < 0 THEN -n ELSE n
        \* p = floor(log2(a / d)); N / D = (a / d) / 2^p lies in [1, 2)
        p == CHOOSE s \in -12..12 :
                 IF s >= 0 THEN d * (2 ^ s) <= a /\ a < 2 * d * (2 ^ s)
                 ELSE d <= a * (2 ^ (-s)) /\ a * (2 ^ (-s)) < 2 * d
        N == IF p >= 0 THEN a ELSE a * (2 ^ (-p))
        D == IF p >= 0 THEN d * (2 ^ p) ELSE d
        q == DivBits(N, D)
    IN  IF a = 0 THEN [neg |-> FALSE, m |-> <<>>, e |-> 0]
        ELSE RoundNearestEven(n < 0, q.bits, p - MantBits, q.rem # 0, prec)

\* Python's float(n) / float(d)
FloatDiv(n, d) == FloatDivTo(n, d, MantBits)

\* bits * k for a mantissa of at most MantBits bits (schoolbook
\* multiplication, a limb at a time from the low end)
MulBits(bits, k) ==
    LET padded == [i \in 1..(3 * LimbBits - Len(bits)) |-> 0] \o bits
        l1 == BitsToInt(SubSeq(padded, 1, LimbBits))
        l2 == BitsToInt(SubSeq(padded, LimbBits + 1, 2 * LimbBits))
        l3 == BitsToInt(SubSeq(padded, 2 * LimbBits + 1, 3 * LimbBits))
        t3 == l3 * k
        t2 == l2 * k + (t3 \div Limb)
        t1 == l1 * k + (t2 \div Limb)
    IN  StripZeros(ToBits(t1, 30) \o ToBits(t2 % Limb, LimbBits)
                   \o ToBits(t3 % Limb, LimbBits))

\* k * x for an integer k in a float format of prec mantissa bits: the exact
\* product, rounded once
FloatMulIntTo(k, x, prec) ==
    LET a == IF k < 0 THEN -k ELSE k
    IN  IF a = 0 \/ x.m = <<>> THEN [neg |-> FALSE, m |-> <<>>, e |-> 0]
        ELSE RoundNearestEven(x.neg # (k < 0), MulBits(x.m, a), x.e, FALSE, prec)

\* Python's float(k) * x
FloatMulInt(k, x) == FloatMulIntTo(k, x, MantBits)

\* s < t for bit sequences aligned at their first bit, the shorter one
\* continued with zeros
BitAt(s, i) == IF i <= Len(s) THEN s[i] ELSE 0

BitsLess(s, t) ==
    \E i \in 1..MantBits :
        BitAt(s, i) < BitAt(t, i) /\ \A j \in 1..(i - 1) : BitAt(s, j) = BitAt(t, j)

\* |x| < |y|
MagLess(x, y) ==
    IF x.m = <<>> THEN y.m # <<>>
    ELSE IF y.m = <<>> THEN FALSE
    ELSE IF Len(x.m) + x.e # Len(y.m) + y.e
         THEN Len(x.m) + x.e < Len(y.m) + y.e
         ELSE BitsLess(x.m, y.m)

\* x < y
FloatLess(x, y) ==
    IF x.neg /\ ~y.neg THEN TRUE
    ELSE IF ~x.neg /\ y.neg THEN FALSE
    ELSE IF x.neg THEN MagLess(y, x)
    ELSE MagLess(x, y)

\* Python's min(a, b): b only when b < a
FloatMin(a, b) == IF FloatLess(b, a) THEN b ELSE a

\* Python's int(x): truncation towards zero
FloatToInt(x) ==
    LET n == Len(x.m) + x.e
        mag == IF n <= 0 THEN 0
               ELSE IF x.e >= 0 THEN BitsToInt(x.m) * (2 ^ x.e)
               ELSE BitsToInt(SubSeq(x.m, 1, n))
    IN  IF x.neg THEN -mag ELSE mag

(***************************************************************************)
(* pillow_fit_image_within                                                 *)
(***************************************************************************)
SizeMultiple == 64

\* the size left as it is scaled
RoundDown64NoOp(x) == x

\* lambda x: x - x % 64   (Python's % takes the sign of the divisor)
RoundDown64(x) == x - (x % SizeMultiple)

\* the (w, h) pillow_fit_image_within computes for a w x h image
FitSize(w, h, max_height, max_width) ==
    LET resize_ratio == FloatMin(FloatDiv(max_width, w), FloatDiv(max_height, h))
        w1 == FloatToInt(FloatMulInt(w, resize_ratio))
        h1 == FloatToInt(FloatMulInt(h, resize_ratio))
    IN  [w |-> RoundDown64(w1), h |-> RoundDown64(h1)]

\* image.size of a zero-sided image makes max_width / w raise; otherwise the
\* image is resized to (w, h) and returned with them
pillow_fit_image_within(w, h, max_height, max_width) ==
    IF w = 0 \/ h = 0
    THEN [kind |-> "raise", exc |-> "ZeroDivisionError"]
    ELSE LET size == FitSize(w, h, max_height, max_width)
         IN  [kind |-> "return", resized |-> <<size.w, size.h>>, w |-> size.w, h |-> size.h]

\* image sides 0..MaxDim; the limits a caller passes for max_height, max_width
MaxDim == 50
DefaultMax == 512
Limits == {-SizeMultiple, 0, SizeMultiple, DefaultMax}

(***************************************************************************)
(* expand_mask                                                             *)
(***************************************************************************)
MaxPixel == 255
Zero == [neg |-> FALSE, m |-> <<>>, e |-> 0]
One == [neg |-> FALSE, m |-> <<1>>, e |-> 0]

\* a Python float used against a float32 array
ToFloat32(x) == RoundNearestEven(x.neg, x.m, x.e, FALSE, Mant32Bits)

\* threshold = 0.95 if size < 0 else 0.05, in hundredths
ThresholdPercent(size) == IF size < 0 THEN 95 ELSE 5

\* mask[mask < threshold] = 0 alone
BinarizeNoUpper(v, threshold) == IF FloatLess(v, threshold) THEN Zero ELSE v

\* mask[mask < threshold] = 0; mask[mask >= threshold] = 1
Binarize(v, threshold) ==
    LET low == IF FloatLess(v, threshold) THEN Zero ELSE v
    IN  IF ~FloatLess(low, threshold) THEN One ELSE low

\* the pixels of the image expand_mask returns, from the blurred "L" pixels
expand_mask(blurred, size) ==
    LET threshold == ToFloat32(FloatDiv(ThresholdPercent(size), 100))
        mask == [i \in DOMAIN blurred |-> FloatDivTo(blurred[i], MaxPixel, Mant32Bits)]
    IN  [i \in DOMAIN blurred |->
            FloatToInt(FloatMulIntTo(MaxPixel, Binarize(mask[i], threshold), Mant32Bits))]

\* masks of NumPixels pixels, blur sizes -MaxBlur..MaxBlur
NumPixels == 1
MaxBlur == 1

(***************************************************************************)
(* fix_torch_nn_layer_norm and fix_torch_group_norm                        *)
(***************************************************************************)
\* function objects: torch's own, the module's _fixed_layer_norm, and the
\* closures _group_norm_wrapper, each holding the orig_group_norm it captured
TorchLayerNorm == [fn |-> "torch.layer_norm"]
FixedLayerNorm == [fn |-> "_fixed_layer_norm"]
TorchGroupNorm == [fn |-> "torch.group_norm"]
GroupNormWrapper(orig_group_norm) ==
    [fn |-> "_group_norm_wrapper", orig_group_norm |-> orig_group_norm]

\* tensors by dtype; t.to(dtype) is a new tensor
None == [isNone |-> TRUE]
Tensor(name, dtype) == [isNone |-> FALSE, name |-> name, dtype |-> dtype, copy |-> FALSE]
TensorTo(t, dtype) == [t EXCEPT !.dtype = dtype, !.copy = TRUE]
Dtypes == {"float16", "float32"}

\* if x is not None and x.dtype != input.dtype: x = x.to(input.dtype)
CastToInput(x, input) ==
    IF ~x.isNone /\ x.dtype # input.dtype THEN TensorTo(x, input.dtype) ELSE x

\* a wrapper that casts the weight and forgets the bias
GroupNormWrapperArgsBiasKept(args) ==
    [args EXCEPT !.weight = CastToInput(args.weight, args.input)]

\* the arguments _group_norm_wrapper hands to its orig_group_norm
GroupNormWrapperArgs(args) ==
    [args EXCEPT !.weight = CastToInput(args.weight, args.input),
                 !.bias = CastToInput(args.bias, args.input)]

\* the arguments torch's group_norm receives when f is called with args
RECURSIVE GroupNormReceives(_, _)
GroupNormReceives(f, args) ==
    IF f.fn = "_group_norm_wrapper"
    THEN GroupNormReceives(f.orig_group_norm, GroupNormWrapperArgs(args))
    ELSE args

\* the restore written after the yield without try/finally
RestoredNoFinally(frame, current, raised) == IF raised THEN current ELSE frame.orig

\* the finally clause of either context manager: the attribute it patched
\* gets back the function the frame saved, however the body ended
Restored(frame, current, raised) == frame.orig

\* at most MaxNest contexts are open at a time
MaxNest == 3
NumGroupsValues == {1, 32}
EpsValues == {"1e-05", "1e-06"}
GroupNormArgs ==
    [input : {Tensor("input", d) : d \in Dtypes},
     num_groups : NumGroupsValues,
     weight : {None} \cup {Tensor("weight", d) : d \in Dtypes},
     bias : {None} \cup {Tensor("bias", d) : d \in Dtypes},
     eps : EpsValues]

(***************************************************************************)
(* get_cache_dir and get_cached_url_path                                   *)
(*                                                                         *)
(* A string is a sequence of tokens, "/" a token of its own.               *)
(***************************************************************************)
Unset == [set |-> FALSE]
EnvSet(v) == [set |-> TRUE, val |-> v]

\* os.path.join(a, b) on POSIX
PathJoin(a, b) ==
    IF b # <<>> /\ b[1] = "/" THEN b
    ELSE IF a = <<>> \/ a[Len(a)] = "/" THEN a \o b
    ELSE a \o <<"/">> \o b

\* os.path.dirname(__file__)
ModuleDir == <<"/", "site-packages", "/", "imaginairy">>

get_cache_dir(xdg_cache_home, user_home) ==
    LET xdg == IF ~xdg_cache_home.set /\ user_home.set /\ user_home.val # <<>>
               THEN EnvSet(PathJoin(user_home.val, <<".cache">>))
               ELSE xdg_cache_home
    IN  IF xdg.set
        THEN PathJoin(PathJoin(xdg.val, <<"imaginairy">>), <<"weights">>)
        ELSE PathJoin(ModuleDir, <<".cached-downloads">>)

\* s.split("/")
RECURSIVE SplitSlash(_)
SplitSlash(s) ==
    IF \A i \in 1..Len(s) : s[i] # "/" THEN <<s>>
    ELSE LET k == CHOOSE i \in 1..Len(s) : s[i] = "/" /\ \A j \in 1..(i - 1) : s[j] # "/"
         IN  <<SubSeq(s, 1, k - 1)>> \o SplitSlash(SubSeq(s, k + 1, Len(s)))

\* url.split("/")[0]
UrlFilenameFirst(url) == SplitSlash(url)[1]

\* url.split("/")[-1]
UrlFilename(url) == SplitSlash(url)[Len(SplitSlash(url))]

\* a download that never looks for the file
PathExistsNever(p, fs, ds) == FALSE

\* os.path.exists(p): a regular file, or a directory named with or without a
\* trailing "/"
PathExists(p, fs, ds) ==
    \/ p \in DOMAIN fs
    \/ p \in ds
    \/ (p # <<>> /\ p[Len(p)] = "/" /\ SubSeq(p, 1, Len(p) - 1) \in ds)

\* except Exception
IsOSErrorAny(exc) == TRUE

\* except OSError: the exception classes it catches
IsOSError(exc) == exc \in {"OSError", "FileNotFoundError"}

\* what transformers.cached_path(url) and requests.get(url) can do
CachedPathOutcomes ==
    {[kind |-> "return", path |-> <<"/", "hf-cache", "/", "blob">>]}
    \cup {[kind |-> "raise", exc |-> e] : e \in {"OSError", "FileNotFoundError", "ValueError"}}
Bodies == {"bytesA", "bytesB"}
GetOutcomes ==
    {[kind |-> "response", content |-> c] : c \in Bodies}
    \cup {[kind |-> "raise", exc |-> "requests.ConnectionError"]}

\* get_cached_url_path(url) on a disk of files fs and directories ds, when
\* cached_path does cached and a GET request, if issued, does get: the
\* result, the disk afterwards and the GET requests issued
get_cached_url_path(url, cached, get, env, fs, ds) ==
    LET filename  == UrlFilename(url)
        dest      == get_cache_dir(env.XDG_CACHE_HOME, env.HOME)
        ds1       == ds \cup {dest}
        dest_path == PathJoin(dest, filename)
    IN  IF cached.kind = "return"
        THEN [result |-> cached, files |-> fs, dirs |-> ds, gets |-> <<>>]
        ELSE IF ~IsOSError(cached.exc)
        THEN [result |-> cached, files |-> fs, dirs |-> ds, gets |-> <<>>]
        ELSE IF PathExists(dest_path, fs, ds1)
        THEN [result |-> [kind |-> "return", path |-> dest_path],
              files |-> fs, dirs |-> ds1, gets |-> <<>>]
        ELSE IF get.kind = "raise"
        THEN [result |-> get, files |-> fs, dirs |-> ds1, gets |-> <<url>>]
        ELSE [result |-> [kind |-> "return", path |-> dest_path],
              files |-> (dest_path :> get.content) @@ fs,
              dirs |-> ds1, gets |-> <<url>>]

\* the values the two environment variables take, the urls asked for, and at
\* most MaxGets GET requests and MaxDeletes deletions from outside in a run
EnvValues == {Unset, EnvSet(<<>>), EnvSet(<<"/", "x">>)}
HomeValues == {Unset, EnvSet(<<>>), EnvSet(<<"/", "h">>)}
Urls ==
    { <<"https:", "/", "/", "h", "/", "a.ckpt">>,
      <<"https:", "/", "/", "g", "/", "a.ckpt">>,
      <<"https:", "/", "/", "h", "/", "b.ckpt">>,
      <<"https:", "/", "/", "h", "/">> }
Filenames == {UrlFilename(u) : u \in Urls}
MaxGets == 2
MaxDeletes == 1

(***************************************************************************)
(* The variables of the functions a specification does not exercise        *)
(***************************************************************************)
FitIdle ==
    /\ fitIn = [w |-> 0, h |-> 0, max_height |-> 0, max_width |-> 0]
    /\ fitOut = [kind |-> "pending"]

MaskIdle ==
    /\ maskIn = [size |-> 0, blurred |-> <<>>]
    /\ maskOut = [kind |-> "pending"]

NormIdle ==
    /\ layer_norm = TorchLayerNorm
    /\ group_norm = TorchGroupNorm
    /\ ctxStack = <<>>
    /\ lastExit = "none"
    /\ gnCall = [kind |-> "none"]

CacheIdle ==
    /\ environ = [XDG_CACHE_HOME |-> Unset, HOME |-> Unset]
    /\ files = <<>>
    /\ dirs = {}
    /\ cacheDir = [kind |-> "pending"]
    /\ lastCall = [kind |-> "none"]
    /\ getIssued = [f \in Filenames |-> 0]
    /\ getOk = [f \in Filenames |-> 0]
    /\ allOSError = TRUE
    /\ deleted = 0

fitVars == <<fitIn, fitOut>>
maskVars == <<maskIn, maskOut>>
normVars == <<layer_norm, group_norm, ctxStack, lastExit, gnCall>>
cacheVars == <<environ, files, dirs, cacheDir, lastCall, getIssued, getOk, allOSError, deleted>>

(***************************************************************************)
(* Specification of the image-fitting arithmetic                           *)
(***************************************************************************)
InitFit ==
    /\ fitIn \in [w : 0..MaxDim, h : 0..MaxDim, max_height : Limits, max_width : Limits]
    /\ fitOut = [kind |-> "pending"]
    /\ MaskIdle
    /\ NormIdle
    /\ CacheIdle

\* one call of pillow_fit_image_within on the image and limits of fitIn
FitCall ==
    /\ fitOut.kind = "pending"
    /\ fitOut' = pillow_fit_image_within(fitIn.w, fitIn.h, fitIn.max_height, fitIn.max_width)
    /\ UNCHANGED <<fitIn, maskVars, normVars, cacheVars>>

NextFit == FitCall

SpecFit == InitFit /\ [][NextFit]_vars

\* C5: the width and height pillow_fit_image_within returns, which are the
\* size the image is resized to, are integer multiples of 64.
FitMultipleOf64 ==
    fitOut.kind = "return" =>
        /\ fitOut.w % 64 = 0
        /\ fitOut.h % 64 = 0
        /\ fitOut.resized = <<fitOut.w, fitOut.h>>

\* a 49 x 49 image under the default limits comes back 448 x 448
FitMultipleOf64Witness ==
    /\ fitIn = [w |-> 49, h |-> 49, max_height |-> DefaultMax, max_width |-> DefaultMax]
    /\ fitOut.kind = "return"
    /\ fitOut.w = 448
    /\ fitOut.h = 448

\* C9: for an image of at least 1 x 1 and limits of at least 64, the returned
\* width and height are at least 64.
FitNeverEmpty ==
    (/\ fitOut.kind = "return"
     /\ fitIn.w >= 1
     /\ fitIn.h >= 1
     /\ fitIn.max_width >= 64
     /\ fitIn.max_height >= 64)
    => (fitOut.w >= 64 /\ fitOut.h >= 64)

(***************************************************************************)
(* Specification of the mask thresholding                                  *)
(***************************************************************************)
InitMask ==
    /\ maskIn \in [size : (-MaxBlur)..MaxBlur, blurred : [1..NumPixels -> 0..MaxPixel]]
    /\ maskOut = [kind |-> "pending"]
    /\ FitIdle
    /\ NormIdle
    /\ CacheIdle

\* one call of expand_mask on the mask and size of maskIn
MaskCall ==
    /\ maskOut.kind = "pending"
    /\ maskOut' = [kind |-> "return", pixels |-> expand_mask(maskIn.blurred, maskIn.size)]
    /\ UNCHANGED <<maskIn, fitVars, normVars, cacheVars>>

NextMask == MaskCall

SpecMask == InitMask /\ [][NextMask]_vars

\* C6: every pixel expand_mask returns is 0 or 255, and it is 255 exactly when
\* the blurred value divided by 255 is at least the threshold, 0.05 for
\* size >= 0 and 0.95 for size < 0.
MaskBinarized ==
    maskOut.kind = "return" =>
        \A i \in DOMAIN maskIn.blurred :
            LET hundredths == IF maskIn.size >= 0 THEN 5 ELSE 95
                above == maskIn.blurred[i] * 100 >= hundredths * 255
            IN  /\ maskOut.pixels[i] \in {0, 255}
                /\ (maskOut.pixels[i] = 255) <=> above

\* a pixel of 13 (13 / 255 >= 0.05) comes back 255 under a non-negative size
MaskBinarizedWitness ==
    /\ maskOut.kind = "return"
    /\ maskIn.size >= 0
    /\ maskIn.blurred[1] = 13
    /\ maskOut.pixels[1] = 255

(***************************************************************************)
(* Specification of the normalisation patches                              *)
(***************************************************************************)
InitNorm ==
    /\ NormIdle
    /\ FitIdle
    /\ MaskIdle
    /\ CacheIdle

\* with fix_torch_nn_layer_norm(): up to the yield
EnterLayerNorm ==
    /\ Len(ctxStack) < MaxNest
    /\ ctxStack' = Append(ctxStack, [cm |-> "fix_torch_nn_layer_norm", orig |-> layer_norm])
    /\ layer_norm' = FixedLayerNorm
    /\ UNCHANGED <<group_norm, lastExit, gnCall, fitVars, maskVars, cacheVars>>

\* with fix_torch_group_norm(): up to the yield
EnterGroupNorm ==
    /\ Len(ctxStack) < MaxNest
    /\ ctxStack' = Append(ctxStack, [cm |-> "fix_torch_group_norm", orig |-> group_norm])
    /\ group_norm' = GroupNormWrapper(group_norm)
    /\ UNCHANGED <<layer_norm, lastExit, gnCall, fitVars, maskVars, cacheVars>>

\* the body of the innermost with statement ends; its context manager resumes
\* after the yield
ExitContext(raised) ==
    /\ ctxStack # <<>>
    /\ LET frame == ctxStack[Len(ctxStack)]
       IN  /\ layer_norm' = IF frame.cm = "fix_torch_nn_layer_norm"
                            THEN Restored(frame, layer_norm, raised) ELSE layer_norm
           /\ group_norm' = IF frame.cm = "fix_torch_group_norm"
                            THEN Restored(frame, group_norm, raised) ELSE group_norm
    /\ ctxStack' = SubSeq(ctxStack, 1, Len(ctxStack) - 1)
    /\ lastExit' = IF raised THEN "raise" ELSE "return"
    /\ UNCHANGED <<gnCall, fitVars, maskVars, cacheVars>>

BodyReturns == ExitContext(FALSE)

BodyRaises == ExitContext(TRUE)

\* functional.group_norm(input, num_groups, weight, bias, eps)
CallGroupNorm ==
    \E args \in GroupNormArgs :
        /\ gnCall' = [kind |-> "call",
                      patched |-> group_norm.fn = "_group_norm_wrapper",
                      given |-> args,
                      received |-> GroupNormReceives(group_norm, args)]
        /\ UNCHANGED <<layer_norm, group_norm, ctxStack, lastExit, fitVars, maskVars, cacheVars>>

NextNorm == EnterLayerNorm \/ EnterGroupNorm \/ BodyReturns \/ BodyRaises \/ CallGroupNorm

SpecNorm == InitNorm /\ [][NextNorm]_vars

\* C7: while fix_torch_group_norm is active, the original group_norm gets a
\* weight and a bias that are None when given as None and otherwise of the
\* input's dtype; input, num_groups and eps arrive unchanged, and so does a
\* weight or bias whose dtype already matched.
GroupNormCastsToInput ==
    (gnCall.kind = "call" /\ gnCall.patched) =>
        LET g == gnCall.given
            r == gnCall.received
            ok(given, received) ==
                /\ given.isNone => received = given
                /\ ~given.isNone => (~received.isNone /\ received.dtype = g.input.dtype)
                /\ (~given.isNone /\ given.dtype = g.input.dtype) => received = given
        IN  /\ r.input = g.input
            /\ r.num_groups = g.num_groups
            /\ r.eps = g.eps
            /\ ok(g.weight, r.weight)
            /\ ok(g.bias, r.bias)

\* a float32 weight and bias with a float16 input reach the original as float16
GroupNormCastsToInputWitness ==
    /\ gnCall.kind = "call"
    /\ gnCall.patched
    /\ gnCall.given.input.dtype = "float16"
    /\ gnCall.given.weight = Tensor("weight", "float32")
    /\ gnCall.given.bias = Tensor("bias", "float32")
    /\ gnCall.received.weight.dtype = "float16"
    /\ gnCall.received.bias.dtype = "float16"

\* the functions installed once the contexts of stk have been entered in order
RECURSIVE Installed(_)
Installed(stk) ==
    IF stk = <<>> THEN [layer_norm |-> TorchLayerNorm, group_norm |-> TorchGroupNorm]
    ELSE LET before == Installed(SubSeq(stk, 1, Len(stk) - 1))
         IN  IF stk[Len(stk)].cm = "fix_torch_nn_layer_norm"
             THEN [before EXCEPT !.layer_norm = FixedLayerNorm]
             ELSE [before EXCEPT !.group_norm = GroupNormWrapper(before.group_norm)]

\* C8: every open context has its replacement installed, and leaving a
\* context, by return or by raise, puts back the function that was installed
\* when it was entered; with every context left, both attributes are the
\* functions present before the outermost enter.
NormPatchRestored ==
    /\ layer_norm = Installed(ctxStack).layer_norm
    /\ group_norm = Installed(ctxStack).group_norm
    /\ ctxStack = <<>> => (layer_norm = TorchLayerNorm /\ group_norm = TorchGroupNorm)

\* every context has been left, the last one by an exception
NormPatchRestoredWitness ==
    /\ ctxStack = <<>>
    /\ lastExit = "raise"
    /\ layer_norm = TorchLayerNorm
    /\ group_norm = TorchGroupNorm

(***************************************************************************)
(* Specification of the weights cache                                      *)
(***************************************************************************)
InitCache ==
    /\ environ \in [XDG_CACHE_HOME : EnvValues, HOME : HomeValues]
    /\ files = <<>>
    /\ dirs = {}
    /\ cacheDir = [kind |-> "pending"]
    /\ lastCall = [kind |-> "none"]
    /\ getIssued = [f \in Filenames |-> 0]
    /\ getOk = [f \in Filenames |-> 0]
    /\ allOSError = TRUE
    /\ deleted = 0
    /\ FitIdle
    /\ MaskIdle
    /\ NormIdle

RECURSIVE SumOver(_, _)
SumOver(count, keys) ==
    IF keys = {} THEN 0
    ELSE LET k == CHOOSE x \in keys : TRUE
         IN  count[k] + SumOver(count, keys \ {k})

\* get_cache_dir()
GetCacheDir ==
    /\ cacheDir' = [kind |-> "return",
                    path |-> get_cache_dir(environ.XDG_CACHE_HOME, environ.HOME)]
    /\ UNCHANGED <<environ, files, dirs, lastCall, getIssued, getOk, allOSError, deleted,
                   fitVars, maskVars, normVars>>

\* get_cached_url_path(url)
GetCachedUrlPath ==
    \E url \in Urls, cached \in CachedPathOutcomes, get \in GetOutcomes :
        \E call \in {get_cached_url_path(url, cached, get, environ, files, dirs)},
           filename \in {UrlFilename(url)} :
            \E issued \in {Len(call.gets)},
               dest_path \in {PathJoin(get_cache_dir(environ.XDG_CACHE_HOME, environ.HOME),
                                       filename)} :
                /\ issued > 0 => SumOver(getIssued, Filenames) < MaxGets
                /\ files' = call.files
                /\ dirs' = call.dirs
                /\ getIssued' = [getIssued EXCEPT ![filename] = @ + issued]
                /\ getOk' = [getOk EXCEPT ![filename] =
                                 IF issued > 0 /\ get.kind = "response" THEN @ + 1 ELSE @]
                /\ lastCall' = [kind |-> "call", url |-> url, cached |-> cached,
                                result |-> call.result, gets |-> call.gets,
                                get |-> IF issued > 0 THEN get ELSE [kind |-> "unused"],
                                before |-> IF dest_path \in DOMAIN files
                                           THEN [file |-> TRUE, content |-> files[dest_path]]
                                           ELSE [file |-> FALSE],
                                wrote |-> call.files # files]
                /\ allOSError' = (allOSError /\ cached.kind = "raise"
                                     /\ cached.exc \in {"OSError", "FileNotFoundError"})
                /\ UNCHANGED <<environ, cacheDir, deleted, fitVars, maskVars, normVars>>

\* somebody outside the program removes a file of the cache directory
ExternalDelete ==
    \E p \in DOMAIN files :
        /\ deleted < MaxDeletes
        /\ files' = [q \in DOMAIN files \ {p} |-> files[q]]
        /\ deleted' = deleted + 1
        /\ UNCHANGED <<environ, dirs, cacheDir, lastCall, getIssued, getOk, allOSError,
                       fitVars, maskVars, normVars>>

NextCache == GetCacheDir \/ GetCachedUrlPath \/ ExternalDelete

SpecCache == InitCache /\ [][NextCache]_vars

\* the text of url after its last "/"
Basename(url) ==
    LET k == CHOOSE i \in 0..Len(url) :
                 /\ \A j \in (i + 1)..Len(url) : url[j] # "/"
                 /\ i = 0 \/ url[i] = "/"
    IN  SubSeq(url, k + 1, Len(url))

\* <cache_dir>/<basename(url)>
CachePathOf(url) ==
    PathJoin(get_cache_dir(environ.XDG_CACHE_HOME, environ.HOME), Basename(url))

CachedFailedOSError(c) ==
    c.kind = "call" /\ c.cached.kind = "raise" /\ c.cached.exc \in {"OSError", "FileNotFoundError"}

\* C1: get_cache_dir returns XDG_CACHE_HOME/imaginairy/weights when
\* XDG_CACHE_HOME is available (set and not empty), else
\* HOME/.cache/imaginairy/weights when HOME is available, else
\* <module dir>/.cached-downloads.
CacheDirOrder ==
    cacheDir.kind = "return" =>
        LET available(v) == v.set /\ v.val # <<>>
            xdg  == environ.XDG_CACHE_HOME
            home == environ.HOME
        IN  cacheDir.path =
                IF available(xdg) THEN xdg.val \o <<"/", "imaginairy", "/", "weights">>
                ELSE IF available(home)
                     THEN home.val \o <<"/", ".cache", "/", "imaginairy", "/", "weights">>
                ELSE ModuleDir \o <<"/", ".cached-downloads">>

HitLeavesFile ==
    (lastCall.kind = "call" /\ CachedFailedOSError(lastCall) /\ lastCall.before.file) =>
        /\ lastCall.result = [kind |-> "return", path |-> CachePathOf(lastCall.url)]
        /\ lastCall.gets = <<>>
        /\ ~lastCall.wrote
        /\ CachePathOf(lastCall.url) \in DOMAIN files
        /\ files[CachePathOf(lastCall.url)] = lastCall.before.content

\* C3 as stated: while cached_path always fails with OSError and no file is
\* deleted, a call whose file exists returns its path without a GET and
\* leaves it unchanged, and at most one GET is issued per basename.
CachedOncePerNameAsStated ==
    (allOSError /\ deleted = 0) =>
        /\ HitLeavesFile
        /\ \A f \in Filenames : getIssued[f] <= 1

\* C3, amended: ... and at most one GET that returns a response is issued per
\* basename.
CachedOncePerName ==
    (allOSError /\ deleted = 0) =>
        /\ HitLeavesFile
        /\ \A f \in Filenames : getOk[f] <= 1

\* a.ckpt was downloaded once, and a second url of the same basename then got
\* the file of the first
CachedOncePerNameWitness ==
    /\ allOSError
    /\ deleted = 0
    /\ lastCall.kind = "call"
    /\ lastCall.url = <<"https:", "/", "/", "g", "/", "a.ckpt">>
    /\ lastCall.before.file
    /\ lastCall.gets = <<>>
    /\ getIssued[<<"a.ckpt">>] = 1
    /\ getOk[<<"a.ckpt">>] = 1

\* what get_cached_url_path lets through to its caller
FailuresPropagate ==
    lastCall.kind = "call" =>
        /\ (lastCall.cached.kind = "raise"
            /\ lastCall.cached.exc \notin {"OSError", "FileNotFoundError"}) =>
               /\ lastCall.result = lastCall.cached
               /\ lastCall.gets = <<>>
               /\ ~lastCall.wrote
        /\ CachedFailedOSError(lastCall) => lastCall.result # lastCall.cached
        /\ (lastCall.gets # <<>> /\ lastCall.get.kind = "raise") =>
               /\ lastCall.result = lastCall.get
               /\ ~lastCall.wrote
               /\ CachePathOf(lastCall.url) \notin DOMAIN files

\* after a GET that failed, the next call for the same url that gets past
\* cached_path issues the GET again
FailedGetRetried ==
    (/\ lastCall.kind = "call"
     /\ lastCall.gets # <<>>
     /\ lastCall.get.kind = "raise"
     /\ lastCall'.url = lastCall.url
     /\ CachedFailedOSError(lastCall'))
    => lastCall'.gets = <<lastCall.url>>

\* C4: only an OSError of cached_path is recovered, by the manual download;
\* any other exception of cached_path and any failure of the GET reach the
\* caller; a failed GET leaves no file at <cache_dir>/<basename(url)>, and a
\* later call for the same url downloads again.
OnlyOSErrorRecovered == [](FailuresPropagate) /\ [][FailedGetRetried]_vars

\* the GET for a.ckpt failed twice in a row: the second call tried again
OnlyOSErrorRecoveredWitness ==
    /\ lastCall.kind = "call"
    /\ lastCall.gets # <<>>
    /\ lastCall.get.kind = "raise"
    /\ lastCall.result = [kind |-> "raise", exc |-> "requests.ConnectionError"]
    /\ getIssued[<<"a.ckpt">>] = 2
    /\ getOk[<<"a.ckpt">>] = 0
    /\ files = <<>>

====
